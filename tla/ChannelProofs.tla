--------------------------- MODULE ChannelProofs ----------------------------
(***************************************************************************)
(* Theorems about Channel, for any number of senders, receivers and        *)
(* closers, any capacity and any interleaving.                             *)
(***************************************************************************)
EXTENDS Channel, FiniteSetTheorems, TLAPS

-----------------------------------------------------------------------------
(* Lemmas on the operators of the model.  What a notification does to the   *)
(* listeners: it keeps their types, it wakes only who waits, and notifying  *)
(* all leaves nobody waiting.                                               *)
LEMMA AllNotifiedTypes ==
  ASSUME NEW e \in Ears, NEW P
  PROVE  /\ AllNotified(P, e) \in Ears
         /\ \A q \in Senders \cup Receivers :
                /\ AllNotified(P, e)[q] = "waiting" => e[q] = "waiting" /\ q \notin P
                /\ e[q] = "none" => AllNotified(P, e)[q] = "none"
  BY DEF AllNotified, Ears

LEMMA OneNotifiedTypes ==
  ASSUME NEW e \in Ears, NEW P, NEW x \in OneNotified(P, e)
  PROVE  /\ x \in Ears
         /\ \A q \in Senders \cup Receivers : /\ x[q] = "waiting" => e[q] = "waiting"
                                              /\ e[q] = "none" => x[q] = "none"
  BY DEF OneNotified, Waiting, Ears

LEMMA DropTypes ==
  ASSUME ear \in Ears, NEW P, NEW p \in Senders \cup Receivers, DropListener(p, P)
  PROVE  /\ ear' \in Ears
         /\ \A q \in Senders \cup Receivers : /\ ear'[q] = "waiting" => ear[q] = "waiting"
                                              /\ ear[q] = "none" => ear'[q] = "none"
         /\ ear'[p] = "none"
  <1> DEFINE rest == [ear EXCEPT ![p] = "none"]
  <1>1. /\ rest \in Ears
        /\ \A q \in Senders \cup Receivers : /\ rest[q] = "waiting" => ear[q] = "waiting"
                                             /\ ear[q] = "none" => rest[q] = "none"
        /\ rest[p] = "none"
    BY DEF Ears
  <1>2. ear' \in OneNotified(P, rest) \/ ear' = rest
    BY DEF DropListener
  <1> HIDE DEF rest
  <1>3. CASE ear' = rest
    BY <1>1, <1>3
  <1>4. CASE ear' \in OneNotified(P, rest)
    <2>1. /\ ear' \in Ears
          /\ \A q \in Senders \cup Receivers : /\ ear'[q] = "waiting" => rest[q] = "waiting"
                                               /\ rest[q] = "none" => ear'[q] = "none"
      BY <1>1, <1>4, OneNotifiedTypes
    <2> QED
      BY <1>1, <2>1
  <1> QED
    BY <1>2, <1>3, <1>4

-----------------------------------------------------------------------------
(* Type correctness, by the places of the one process that moves.           *)
LEMMA InitTypeOK == Init => TypeOK
  <1> SUFFICES ASSUME Init PROVE TypeOK
    OBVIOUS
  <1>1. queued \in Nat /\ in_queue \in 0..(Word - 1)
    BY CapAssumption, WordAssumption DEF Init
  <1>5. closed \in BOOLEAN /\ doSent \in BOOLEAN
    BY DEF Init
  <1>2. ear \in Ears
    BY DEF Init, Ears
  <1>3. /\ pc \in [Procs -> SenderPlaces \cup ReceiverPlaces \cup CloserPlaces]
        /\ \A s \in Senders : pc[s] \in SenderPlaces
        /\ \A r \in Receivers : pc[r] \in ReceiverPlaces
        /\ \A c \in Closers : pc[c] \in CloserPlaces
    BY DEF Init, Procs, SenderPlaces, ReceiverPlaces, CloserPlaces
  <1>4. seen \in [Senders -> 0..(Word - 1)] /\ sends \in [Senders -> 0..MaxSends]
    BY CapAssumption, WordAssumption, SendsAssumption DEF Init
  <1> QED
    BY <1>1, <1>2, <1>3, <1>4, <1>5 DEF TypeOK

LEMMA SenderTypeOK ==
  ASSUME TypeOK, NEW s \in Senders,
         SendStart(s) \/ SendRepoll(s) \/ SendCancel(s) \/ DoSendStart(s) \/ SenderStep(s)
  PROVE  TypeOK'
  <1>0. /\ AllNotified(Senders, ear) \in Ears
        /\ AllNotified(Receivers, ear) \in Ears
        /\ \A x \in OneNotified(Senders, ear) : x \in Ears
    BY AllNotifiedTypes, OneNotifiedTypes DEF TypeOK
  <1> USE CapAssumption, WordAssumption, SendsAssumption, ProcsAssumption
      DEF TypeOK, Procs, At, Goto, SenderPlaces
  <1>1. CASE SendStart(s)      BY <1>1 DEF SendStart
  <1>2. CASE SendRepoll(s)     BY <1>2 DEF SendRepoll
  <1>3. CASE SendCancel(s)     BY <1>3, DropTypes DEF SendCancel
  <1>4. CASE DoSendStart(s)    BY <1>4 DEF DoSendStart
  <1>5. CASE SendLoad(s)       BY <1>5 DEF SendLoad
  <1>6. CASE SendReserve(s)    BY <1>6 DEF SendReserve
  <1>7. CASE SendListen(s)     BY <1>7 DEF SendListen, Ears
  <1>8. CASE SendAwait(s)      BY <1>8 DEF SendAwait, Ears
  <1>9. CASE SendPush(s)       BY <1>9 DEF SendPush
  <1>10. CASE SendWakeStream(s)  BY <1>10, <1>0 DEF SendWakeStream
  <1>11. CASE SendWakeSend(s)  BY <1>11, <1>0 DEF SendWakeSend
  <1>12. CASE SendFinish(s)    BY <1>12, DropTypes DEF SendFinish
  <1>13. CASE DoSendPush(s)    BY <1>13 DEF DoSendPush
  <1>14. CASE DoSendWake(s)    BY <1>14, <1>0 DEF DoSendWake
  <1> QED
    BY <1>1, <1>2, <1>3, <1>4, <1>5, <1>6, <1>7, <1>8, <1>9, <1>10, <1>11, <1>12, <1>13, <1>14
       DEF SenderStep

LEMMA ReceiverTypeOK ==
  ASSUME TypeOK, NEW r \in Receivers, RecvStart(r) \/ ReceiverStep(r)
  PROVE  TypeOK'
  <1>0. /\ AllNotified(Senders, ear) \in Ears
        /\ AllNotified(Receivers, ear) \in Ears
        /\ \A x \in OneNotified(Senders, ear) : x \in Ears
    BY AllNotifiedTypes, OneNotifiedTypes DEF TypeOK
  <1> USE CapAssumption, WordAssumption, ProcsAssumption
      DEF TypeOK, Procs, At, Goto, ReceiverPlaces
  <1>1. CASE RecvStart(r)     BY <1>1 DEF RecvStart
  <1>2. CASE RecvAwait(r)     BY <1>2 DEF RecvAwait, Ears
  <1>3. CASE RecvPop(r)       BY <1>3 DEF RecvPop
  <1>4. CASE RecvEmpty(r)     BY <1>4 DEF RecvEmpty
  <1>5. CASE RecvClosed(r)    BY <1>5, DropTypes DEF RecvClosed
  <1>6. CASE RecvListen(r)    BY <1>6 DEF RecvListen, Ears
  <1>7. CASE RecvDequeue(r)   BY <1>7 DEF RecvDequeue
  <1>8. CASE RecvWakeSend(r)  BY <1>8, <1>0 DEF RecvWakeSend
  <1>9. CASE RecvGot(r)       BY <1>9, DropTypes DEF RecvGot
  <1> QED
    BY <1>1, <1>2, <1>3, <1>4, <1>5, <1>6, <1>7, <1>8, <1>9 DEF ReceiverStep

LEMMA CloserTypeOK ==
  ASSUME TypeOK, NEW c \in Closers, Close(c) \/ CloserStep(c)
  PROVE  TypeOK'
  <1>0. /\ AllNotified(Senders, ear) \in Ears
        /\ AllNotified(Receivers, ear) \in Ears
        /\ \A x \in OneNotified(Senders, ear) : x \in Ears
    BY AllNotifiedTypes, OneNotifiedTypes DEF TypeOK
  <1> USE ProcsAssumption DEF TypeOK, Procs, At, Goto, CloserPlaces
  <1>1. CASE Close(c)            BY <1>1 DEF Close
  <1>2. CASE CloseWakeSend(c)    BY <1>2, <1>0 DEF CloseWakeSend
  <1>3. CASE CloseWakeStream(c)  BY <1>3, <1>0 DEF CloseWakeStream
  <1> QED
    BY <1>1, <1>2, <1>3 DEF CloserStep

LEMMA NextTypeOK == TypeOK /\ [Next]_vars => TypeOK'
  <1>1. TypeOK /\ UNCHANGED vars => TypeOK'
    BY DEF TypeOK, vars
  <1> QED
    BY <1>1, SenderTypeOK, ReceiverTypeOK, CloserTypeOK DEF Next

(* The state of the channel keeps its types; in particular in_queue stays   *)
(* a word, even where the decrement of RecvDequeue wraps.                   *)
THEOREM TypeCorrect == Spec => []TypeOK
  BY InitTypeOK, NextTypeOK, PTL DEF Spec
-----------------------------------------------------------------------------
(* No lost wakeup on the receiving side.  A receiver that is on its way to  *)
(* wait, "listening" after a look at the queue with a listener in place, is *)
(* as good as parked: the strengthened invariant speaks of both.            *)
WakePending ==
    \/ \E s \in Senders : pc[s] \in {"wakeStream", "doWake"}
    \/ \E c \in Closers : pc[c] \in {"closeSend", "closeStream"}

Watched ==
    \A r \in Receivers :
        pc[r] \in {"listening", "parked"} /\ ear[r] = "waiting" /\ (queued > 0 \/ closed) => WakePending

(* A receiver that returned a message left no listener behind.              *)
IdleDeaf == \A r \in Receivers : pc[r] = "idle" => ear[r] = "none"

LEMMA SenderWatched ==
  ASSUME TypeOK, Watched, IdleDeaf, NEW s \in Senders,
         SendStart(s) \/ SendRepoll(s) \/ SendCancel(s) \/ DoSendStart(s) \/ SenderStep(s)
  PROVE  Watched' /\ IdleDeaf'
  <1> USE ProcsAssumption DEF Watched, IdleDeaf, WakePending, TypeOK, Procs, At, Goto
  <1>a. \A r \in Receivers : /\ AllNotified(Receivers, ear)[r] # "waiting"
                             /\ ear[r] = "none" => AllNotified(Receivers, ear)[r] = "none"
    BY AllNotifiedTypes
  <1>b. \A x \in OneNotified(Senders, ear), r \in Receivers :
            /\ x[r] = "waiting" => ear[r] = "waiting"
            /\ ear[r] = "none" => x[r] = "none"
    BY OneNotifiedTypes
  <1>c. DropListener(s, Senders) =>
            \A r \in Receivers : /\ ear'[r] = "waiting" => ear[r] = "waiting"
                                 /\ ear[r] = "none" => ear'[r] = "none"
    BY DropTypes
  <1>1. CASE SendStart(s)      BY <1>1 DEF SendStart
  <1>2. CASE SendRepoll(s)     BY <1>2 DEF SendRepoll
  <1>3. CASE SendCancel(s)     BY <1>3, <1>c DEF SendCancel
  <1>4. CASE DoSendStart(s)    BY <1>4 DEF DoSendStart
  <1>5. CASE SendLoad(s)       BY <1>5 DEF SendLoad
  <1>6. CASE SendReserve(s)    BY <1>6 DEF SendReserve
  <1>7. CASE SendListen(s)     BY <1>7 DEF SendListen, Ears
  <1>8. CASE SendAwait(s)      BY <1>8 DEF SendAwait, Ears
  <1>9. CASE SendPush(s)       BY <1>9 DEF SendPush
  <1>10. CASE SendWakeStream(s)  BY <1>10, <1>a DEF SendWakeStream
  <1>11. CASE SendWakeSend(s)  BY <1>11, <1>b DEF SendWakeSend
  <1>12. CASE SendFinish(s)    BY <1>12, <1>c DEF SendFinish
  <1>13. CASE DoSendPush(s)    BY <1>13 DEF DoSendPush
  <1>14. CASE DoSendWake(s)    BY <1>14, <1>a DEF DoSendWake
  <1> QED
    BY <1>1, <1>2, <1>3, <1>4, <1>5, <1>6, <1>7, <1>8, <1>9, <1>10, <1>11, <1>12, <1>13, <1>14
       DEF SenderStep
LEMMA ReceiverWatched ==
  ASSUME TypeOK, Watched, IdleDeaf, NEW r \in Receivers, RecvStart(r) \/ ReceiverStep(r)
  PROVE  Watched' /\ IdleDeaf'
  <1> USE ProcsAssumption DEF Watched, IdleDeaf, WakePending, TypeOK, Procs, At, Goto
  <1>b. \A x \in OneNotified(Senders, ear), q \in Receivers :
            /\ x[q] = "waiting" => ear[q] = "waiting"
            /\ ear[q] = "none" => x[q] = "none"
    BY OneNotifiedTypes
  <1>c. DropListener(r, Receivers) =>
            /\ \A q \in Receivers : /\ ear'[q] = "waiting" => ear[q] = "waiting"
                                    /\ ear[q] = "none" => ear'[q] = "none"
            /\ ear'[r] = "none"
    BY DropTypes
  <1>1. CASE RecvStart(r)     BY <1>1 DEF RecvStart
  <1>2. CASE RecvAwait(r)     BY <1>2 DEF RecvAwait, Ears
  <1>3. CASE RecvPop(r)       BY <1>3 DEF RecvPop
  <1>4. CASE RecvEmpty(r)     BY <1>4 DEF RecvEmpty
  <1>5. CASE RecvClosed(r)    BY <1>5, <1>c DEF RecvClosed
  <1>6. CASE RecvListen(r)    BY <1>6 DEF RecvListen, Ears
  <1>7. CASE RecvDequeue(r)   BY <1>7 DEF RecvDequeue
  <1>8. CASE RecvWakeSend(r)  BY <1>8, <1>b DEF RecvWakeSend
  <1>9. CASE RecvGot(r)       BY <1>9, <1>c DEF RecvGot
  <1> QED
    BY <1>1, <1>2, <1>3, <1>4, <1>5, <1>6, <1>7, <1>8, <1>9 DEF ReceiverStep

LEMMA CloserWatched ==
  ASSUME TypeOK, Watched, IdleDeaf, NEW c \in Closers, Close(c) \/ CloserStep(c)
  PROVE  Watched' /\ IdleDeaf'
  <1> USE ProcsAssumption DEF Watched, IdleDeaf, WakePending, TypeOK, Procs, At, Goto
  <1>a. \A r \in Receivers : /\ AllNotified(Receivers, ear)[r] # "waiting"
                             /\ AllNotified(Senders, ear)[r] = "waiting" => ear[r] = "waiting"
                             /\ ear[r] = "none" => /\ AllNotified(Receivers, ear)[r] = "none"
                                                   /\ AllNotified(Senders, ear)[r] = "none"
    BY AllNotifiedTypes
  <1>1. CASE Close(c)            BY <1>1 DEF Close
  <1>2. CASE CloseWakeSend(c)    BY <1>2, <1>a DEF CloseWakeSend
  <1>3. CASE CloseWakeStream(c)  BY <1>3, <1>a DEF CloseWakeStream
  <1> QED
    BY <1>1, <1>2, <1>3 DEF CloserStep

LEMMA NextWatched == TypeOK /\ Watched /\ IdleDeaf /\ [Next]_vars => Watched' /\ IdleDeaf'
  <1>1. Watched /\ IdleDeaf /\ UNCHANGED vars => Watched' /\ IdleDeaf'
    BY DEF Watched, IdleDeaf, WakePending, vars
  <1> QED
    BY <1>1, SenderWatched, ReceiverWatched, CloserWatched DEF Next

(* No receiver is left waiting beside a message or a closure that nobody    *)
(* will tell it of, for any number of threads pushing, closing, receiving   *)
(* and dropping listeners.                                                  *)
THEOREM NoStrandedReceiver == Spec => []ReceiverNotStranded
  <1>1. Init => Watched /\ IdleDeaf
    BY DEF Init, Watched, IdleDeaf, Procs
  <1>2. Watched => ReceiverNotStranded
    BY DEF Watched, WakePending, ReceiverNotStranded
  <1> QED
    BY <1>1, <1>2, InitTypeOK, NextTypeOK, NextWatched, PTL DEF Spec
-----------------------------------------------------------------------------
(* The slots.  How many processes are at a place, before and after one of   *)
(* them moves.                                                              *)
LEMMA BusyMoves ==
  ASSUME TypeOK, NEW P \in SUBSET Procs, IsFiniteSet(P), NEW p \in P, NEW to, Goto(p, to), NEW place
  PROVE  /\ Busy(P, place) \in Nat
         /\ pc[p] = place => Busy(P, place) > 0
         /\ Busy(P, place)' = Busy(P, place) + (IF to = place THEN 1 ELSE 0)
                                             - (IF pc[p] = place THEN 1 ELSE 0)
  <1> DEFINE Before == {q \in P : pc[q] = place}
             After  == {q \in P : pc'[q] = place}
  <1>1. pc' = [pc EXCEPT ![p] = to] /\ DOMAIN pc = Procs
    BY DEF Goto, TypeOK
  <1>2. IsFiniteSet(Before) /\ IsFiniteSet(After)
    BY FS_Subset
  <1>3. Cardinality(Before) \in Nat /\ Cardinality(After) \in Nat
    BY <1>2, FS_CardinalityType
  <1>4. pc[p] = place => Cardinality(Before) > 0
    <2>1. pc[p] = place => Before # {}
      OBVIOUS
    <2> QED
      BY <1>2, <1>3, <2>1, FS_EmptySet
  <1>5. Cardinality(After) = Cardinality(Before) + (IF to = place THEN 1 ELSE 0)
                                                 - (IF pc[p] = place THEN 1 ELSE 0)
    <2>1. CASE (to = place) <=> (pc[p] = place)
      <3>1. After = Before
        BY <1>1, <2>1
      <3> QED
        BY <1>3, <2>1, <3>1
    <2>2. CASE to = place /\ pc[p] # place
      <3>1. After = Before \cup {p} /\ p \notin Before
        BY <1>1, <2>2
      <3> QED
        <4> HIDE DEF Before, After
        <4>1. Cardinality(Before \cup {p}) = Cardinality(Before) + 1
          BY <1>2, <3>1, FS_AddElement
        <4> QED
          BY <1>3, <2>2, <3>1, <4>1
    <2>3. CASE to # place /\ pc[p] = place
      <3>1. After = Before \ {p} /\ p \in Before
        BY <1>1, <2>3
      <3> QED
        <4> HIDE DEF Before, After
        <4>1. Cardinality(Before \ {p}) = Cardinality(Before) - 1
          BY <1>2, <3>1, FS_RemoveElement
        <4> QED
          BY <1>3, <2>3, <3>1, <4>1
    <2> QED
      BY <2>1, <2>2, <2>3
  <1> QED
    BY <1>3, <1>4, <1>5 DEF Busy

(* A process that moves leaves the others where they are.                   *)
LEMMA BusyOthers ==
  ASSUME TypeOK, NEW P \in SUBSET Procs, IsFiniteSet(P), NEW place,
         \A q \in P : pc'[q] = pc[q]
  PROVE  Busy(P, place)' = Busy(P, place) /\ Busy(P, place) \in Nat
  <1>1. {q \in P : pc'[q] = place} = {q \in P : pc[q] = place}
    OBVIOUS
  <1>2. IsFiniteSet({q \in P : pc[q] = place})
    BY FS_Subset
  <1> QED
    BY <1>1, <1>2, FS_CardinalityType DEF Busy
(* The slots in use cover the messages in the queue and the pushes and pops *)
(* under way, and never exceed the capacity; a refused push leaves a slot   *)
(* in use for ever, so that after a close they may be fewer.                *)
Slots == queued + Busy(Senders, "push") + Busy(Receivers, "dequeue")

SlotsInv ==
    ~doSent => /\ Slots <= in_queue
               /\ in_queue <= Cap
               /\ ~closed => Slots = in_queue
               /\ \A s \in Senders : pc[s] \notin {"doPush", "doWake"}

LEMMA SenderSlots ==
  ASSUME TypeOK, SlotsInv, NEW s \in Senders,
         SendStart(s) \/ SendRepoll(s) \/ SendCancel(s) \/ DoSendStart(s) \/ SenderStep(s)
  PROVE  SlotsInv'
  <1> SUFFICES ASSUME ~doSent' PROVE SlotsInv'
    BY DEF SlotsInv
  <1> DEFINE pushes == Busy(Senders, "push")
             pops   == Busy(Receivers, "dequeue")
  <1> USE CapAssumption, WordAssumption
  <1>0. ~doSent /\ ~DoSendStart(s)
    BY DEF SendStart, SendRepoll, SendCancel, DoSendStart, SenderStep, SendLoad, SendReserve,
           SendListen, SendAwait, SendPush, SendWakeStream, SendWakeSend, SendFinish,
           DoSendPush, DoSendWake
  <1>1. /\ queued \in Nat /\ in_queue \in Nat /\ in_queue <= Cap
        /\ queued + pushes + pops <= in_queue
        /\ ~closed => queued + pushes + pops = in_queue
        /\ \A q \in Senders : pc[q] \notin {"doPush", "doWake"}
    BY <1>0 DEF SlotsInv, Slots, TypeOK
  <1>2. \A to : Goto(s, to) =>
            /\ pushes \in Nat
            /\ pc[s] = "push" => pushes > 0
            /\ pushes' = pushes + (IF to = "push" THEN 1 ELSE 0) - (IF pc[s] = "push" THEN 1 ELSE 0)
    BY BusyMoves, FinitenessAssumption DEF Procs
  <1>3. \A to : Goto(s, to) => pops' = pops /\ pops \in Nat
    <2> TAKE to
    <2> HAVE Goto(s, to)
    <2>1. \A q \in Receivers : pc'[q] = pc[q]
      BY ProcsAssumption DEF Goto, TypeOK, Procs
    <2> QED
      BY <2>1, BusyOthers, FinitenessAssumption DEF Procs
  <1>4. \A to : Goto(s, to) /\ to \notin {"doPush", "doWake"} =>
            \A q \in Senders : pc'[q] \notin {"doPush", "doWake"}
    BY <1>1 DEF Goto, TypeOK, Procs
  <1> SUFFICES /\ queued' + pushes' + pops' <= in_queue'
               /\ in_queue' <= Cap
               /\ ~closed' => queued' + pushes' + pops' = in_queue'
               /\ \A q \in Senders : pc'[q] \notin {"doPush", "doWake"}
    BY DEF SlotsInv, Slots
  <1> HIDE DEF pushes, pops
  <1>5. CASE \/ SendStart(s) \/ SendRepoll(s) \/ SendCancel(s) \/ SendLoad(s)
             \/ SendWakeStream(s) \/ SendWakeSend(s) \/ SendFinish(s)
    <2>1. \E to \in {"load", "idle", "check", "finish", "wakeSend"} : Goto(s, to)
      BY <1>5 DEF SendStart, SendRepoll, SendCancel, SendLoad, SendWakeStream, SendWakeSend, SendFinish
    <2>2. pc[s] # "push" /\ UNCHANGED <<queued, in_queue, closed>>
      BY <1>5 DEF SendStart, SendRepoll, SendCancel, SendLoad, SendWakeStream, SendWakeSend, SendFinish, At
    <2> QED
      BY <1>1, <1>2, <1>3, <1>4, <2>1, <2>2
  <1>6. CASE SendReserve(s)
    <2>1. seen[s] \in Nat /\ pc[s] = "check" /\ seen[s] < Cap /\ UNCHANGED <<queued, closed>>
      BY <1>6 DEF SendReserve, At, TypeOK
    <2>2. CASE in_queue = seen[s]
      <3>1. in_queue' = in_queue + 1 /\ Goto(s, "push")
        BY <1>6, <2>2 DEF SendReserve
      <3> QED
        BY <1>1, <1>2, <1>3, <1>4, <2>1, <2>2, <3>1
    <2>3. CASE in_queue # seen[s]
      <3>1. UNCHANGED <<in_queue, pc>>
        BY <1>6, <2>3 DEF SendReserve
      <3>2. UNCHANGED <<pushes, pops>>
        BY <3>1 DEF pushes, pops, Busy
      <3> QED
        BY <1>1, <2>1, <3>1, <3>2
    <2> QED
      BY <2>2, <2>3
  <1>7. CASE SendListen(s) \/ SendAwait(s)
    <2>1. UNCHANGED <<queued, closed, in_queue>> /\ pc[s] = "check" /\ (UNCHANGED pc \/ Goto(s, "parked"))
      BY <1>7 DEF SendListen, SendAwait, At
    <2>2. CASE UNCHANGED pc
      <3>1. UNCHANGED <<pushes, pops>>
        BY <2>2 DEF pushes, pops, Busy
      <3> QED
        BY <1>1, <2>1, <2>2, <3>1
    <2>3. CASE Goto(s, "parked")
      BY <1>1, <1>2, <1>3, <1>4, <2>1, <2>3
    <2> QED
      BY <2>1, <2>2, <2>3
  <1>8. CASE SendPush(s)
    <2>1. /\ UNCHANGED <<closed, in_queue>> /\ pc[s] = "push"
          /\ \/ closed /\ Goto(s, "finish") /\ UNCHANGED queued
             \/ Goto(s, "wakeStream") /\ queued' = queued + 1
      BY <1>8 DEF SendPush, At
    <2> QED
      BY <1>1, <1>2, <1>3, <1>4, <2>1
  <1>9. CASE DoSendPush(s) \/ DoSendWake(s)
    BY <1>1, <1>9 DEF DoSendPush, DoSendWake, At
  <1> QED
    BY <1>0, <1>5, <1>6, <1>7, <1>8, <1>9 DEF SenderStep
LEMMA ReceiverSlots ==
  ASSUME TypeOK, SlotsInv, NEW r \in Receivers, RecvStart(r) \/ ReceiverStep(r)
  PROVE  SlotsInv'
  <1> SUFFICES ASSUME ~doSent' PROVE SlotsInv'
    BY DEF SlotsInv
  <1> DEFINE pushes == Busy(Senders, "push")
             pops   == Busy(Receivers, "dequeue")
  <1> USE CapAssumption, WordAssumption
  <1>0. ~doSent
    BY DEF RecvStart, ReceiverStep, RecvAwait, RecvPop, RecvEmpty, RecvClosed, RecvListen,
           RecvDequeue, RecvWakeSend, RecvGot
  <1>1. /\ queued \in Nat /\ in_queue \in Nat /\ in_queue <= Cap
        /\ queued + pushes + pops <= in_queue
        /\ ~closed => queued + pushes + pops = in_queue
        /\ \A q \in Senders : pc[q] \notin {"doPush", "doWake"}
    BY <1>0 DEF SlotsInv, Slots, TypeOK
  <1>2. \A to : Goto(r, to) =>
            /\ pops \in Nat
            /\ pc[r] = "dequeue" => pops > 0
            /\ pops' = pops + (IF to = "dequeue" THEN 1 ELSE 0) - (IF pc[r] = "dequeue" THEN 1 ELSE 0)
    BY BusyMoves, FinitenessAssumption DEF Procs
  <1>3. \A to : Goto(r, to) => /\ pushes' = pushes /\ pushes \in Nat
                               /\ \A q \in Senders : pc'[q] = pc[q]
    <2> TAKE to
    <2> HAVE Goto(r, to)
    <2>1. \A q \in Senders : pc'[q] = pc[q]
      BY ProcsAssumption DEF Goto, TypeOK, Procs
    <2> QED
      BY <2>1, BusyOthers, FinitenessAssumption DEF Procs
  <1> SUFFICES /\ queued' + pushes' + pops' <= in_queue'
               /\ in_queue' <= Cap
               /\ ~closed' => queued' + pushes' + pops' = in_queue'
               /\ \A q \in Senders : pc'[q] \notin {"doPush", "doWake"}
    BY DEF SlotsInv, Slots
  <1> HIDE DEF pushes, pops
  <1>4. CASE \/ RecvStart(r) \/ RecvAwait(r) \/ RecvEmpty(r) \/ RecvClosed(r)
             \/ RecvListen(r) \/ RecvWakeSend(r) \/ RecvGot(r)
    <2>1. \E to \in {"try", "listening", "parked", "listen", "ended", "got", "idle"} : Goto(r, to)
      BY <1>4 DEF RecvStart, RecvAwait, RecvEmpty, RecvClosed, RecvListen, RecvWakeSend, RecvGot
    <2>2. pc[r] # "dequeue" /\ UNCHANGED <<queued, in_queue, closed>>
      BY <1>4 DEF RecvStart, RecvAwait, RecvEmpty, RecvClosed, RecvListen, RecvWakeSend, RecvGot, At
    <2> QED
      BY <1>1, <1>2, <1>3, <2>1, <2>2
  <1>5. CASE RecvPop(r)
    <2>1. /\ UNCHANGED <<closed, in_queue>> /\ pc[r] = "try" /\ queued > 0
          /\ queued' = queued - 1 /\ Goto(r, "dequeue")
      BY <1>5 DEF RecvPop, At
    <2> QED
      BY <1>1, <1>2, <1>3, <2>1
  <1>6. CASE RecvDequeue(r)
    <2>1. /\ UNCHANGED <<closed, queued>> /\ pc[r] = "dequeue"
          /\ in_queue' = IF in_queue = 0 THEN Word - 1 ELSE in_queue - 1
          /\ \E to \in {"wakeSend", "got"} : Goto(r, to)
      BY <1>6 DEF RecvDequeue, At
    <2>2. in_queue > 0 /\ pops > 0
      BY <1>1, <1>2, <1>3, <2>1
    <2> QED
      BY <1>1, <1>2, <1>3, <2>1, <2>2
  <1> QED
    BY <1>4, <1>5, <1>6 DEF ReceiverStep

LEMMA CloserSlots ==
  ASSUME TypeOK, SlotsInv, NEW c \in Closers, Close(c) \/ CloserStep(c)
  PROVE  SlotsInv'
  <1> DEFINE pushes == Busy(Senders, "push")
             pops   == Busy(Receivers, "dequeue")
  <1>1. /\ UNCHANGED <<queued, in_queue, doSent>>
        /\ closed => closed'
        /\ \E to : Goto(c, to)
    BY DEF Close, CloserStep, CloseWakeSend, CloseWakeStream
  <1>2. \A q \in Senders \cup Receivers : pc'[q] = pc[q]
    BY <1>1, ProcsAssumption DEF Goto, TypeOK, Procs
  <1>3. UNCHANGED <<pushes, pops>>
    BY <1>2, BusyOthers, FinitenessAssumption DEF Procs
  <1> QED
    BY <1>1, <1>2, <1>3 DEF SlotsInv, Slots

LEMMA NextSlots == TypeOK /\ SlotsInv /\ [Next]_vars => SlotsInv'
  <1>1. SlotsInv /\ UNCHANGED vars => SlotsInv'
    BY DEF SlotsInv, Slots, Busy, vars
  <1> QED
    BY <1>1, SenderSlots, ReceiverSlots, CloserSlots DEF Next

LEMMA InitSlots == Init => SlotsInv
  <1> SUFFICES ASSUME Init PROVE SlotsInv
    OBVIOUS
  <1>1. {p \in Senders : pc[p] = "push"} = {} /\ {p \in Receivers : pc[p] = "dequeue"} = {}
    BY DEF Init, Procs
  <1>2. Busy(Senders, "push") = 0 /\ Busy(Receivers, "dequeue") = 0
    BY <1>1, FS_EmptySet DEF Busy
  <1>3. \A s \in Senders : pc[s] = "idle"
    BY DEF Init, Procs
  <1> QED
    BY <1>2, <1>3, CapAssumption DEF Init, SlotsInv, Slots

(* Until a do_send begins, every slot in use is accounted for while         *)
(* the channel is open: no order of failed and repeated compare_exchange,   *)
(* cancelled futures and receptions loses or invents one.                   *)
THEOREM SlotAccounting == Spec => []SlotsAccounted
  <1>1. SlotsInv => SlotsAccounted
    BY DEF SlotsInv, Slots, SlotsAccounted
  <1> QED
    BY <1>1, InitTypeOK, InitSlots, NextTypeOK, NextSlots, PTL DEF Spec

(* Until a do_send begins, the mailbox never exceeds its capacity,          *)
(* open or closed, and the counter never wraps.                             *)
THEOREM CapacityNeverExceeded == Spec => []CapacityKept
  <1>1. TypeOK /\ SlotsInv => CapacityKept
    <2> SUFFICES ASSUME TypeOK, SlotsInv, ~doSent PROVE queued <= Cap /\ in_queue <= Cap
      BY DEF CapacityKept
    <2>1. Busy(Senders, "push") \in Nat /\ Busy(Receivers, "dequeue") \in Nat
      BY FinitenessAssumption, FS_Subset, FS_CardinalityType DEF Busy
    <2>2. queued \in Nat /\ in_queue \in Nat
      BY WordAssumption, CapAssumption DEF TypeOK
    <2> QED
      BY <2>1, <2>2, CapAssumption DEF SlotsInv, Slots
  <1> QED
    BY <1>1, InitTypeOK, InitSlots, NextTypeOK, NextSlots, PTL DEF Spec
-----------------------------------------------------------------------------
(* No lost wakeup on the sending side, on one thread.  Nobody else moves    *)
(* during a call, so that what it read of the counter is still so; and a    *)
(* sender waits only while the channel is full, a receiver is about to      *)
(* notify, or another sender is notified already.                           *)
SeenFresh == \A s \in Senders : pc[s] = "check" => seen[s] = in_queue

(* Somebody is notified, or nobody waits. *)
Handed(e) == (\E s \in Senders : e[s] = "notified") \/ (\A s \in Senders : e[s] # "waiting")

Expected ==
    \/ closed
    \/ in_queue >= Cap
    \/ \E r \in Receivers : pc[r] = "wakeSend"
    \/ \E s \in Senders : ear[s] = "notified"
    \/ \A s \in Senders : ~(pc[s] = "parked" /\ ear[s] = "waiting")

LEMMA OneNotifiedHands ==
  ASSUME NEW e \in Ears, NEW x \in OneNotified(Senders, e)
  PROVE  Handed(x)
  <1>1. CASE x = e /\ (Waiting(Senders, e) = {} \/ \E s \in Senders : e[s] = "notified")
    BY <1>1 DEF Handed, Waiting
  <1>2. CASE \E s \in Waiting(Senders, e) : x = [e EXCEPT ![s] = "notified"]
    BY <1>2 DEF Handed, Waiting, Ears
  <1> QED
    BY <1>1, <1>2 DEF OneNotified

(* A sender that drops its listener hands a notification on. *)
LEMMA DropHands ==
  ASSUME ear \in Ears, NEW s \in Senders, DropListener(s, Senders)
  PROVE  \/ Handed(ear')
         \/ \A q \in Senders : /\ ear'[q] = "waiting" => ear[q] = "waiting"
                               /\ ear[q] = "notified" => ear'[q] = "notified"
  <1> DEFINE rest == [ear EXCEPT ![s] = "none"]
  <1>1. rest \in Ears
    BY DEF Ears
  <1>2. CASE ear[s] = "notified"
    BY <1>1, <1>2, OneNotifiedHands DEF DropListener
  <1>3. CASE ear[s] # "notified"
    BY <1>3 DEF DropListener, Ears
  <1> QED
    BY <1>2, <1>3

(* What receivers do to their own event leaves the senders' alone. *)
LEMMA ReceiversApart ==
  ASSUME ear \in Ears, NEW s \in Senders
  PROVE  /\ AllNotified(Receivers, ear)[s] = ear[s]
         /\ \A r \in Receivers : DropListener(r, Receivers) => ear'[s] = ear[s]
  <1>1. s \notin Receivers
    BY ProcsAssumption
  <1>2. AllNotified(Receivers, ear)[s] = ear[s]
    BY <1>1 DEF AllNotified, Ears
  <1>3. ASSUME NEW r \in Receivers, DropListener(r, Receivers)
        PROVE  ear'[s] = ear[s]
    <2> DEFINE rest == [ear EXCEPT ![r] = "none"]
    <2>1. rest \in Ears /\ rest[s] = ear[s]
      BY <1>1 DEF Ears
    <2>2. ASSUME NEW q \in Waiting(Receivers, rest) PROVE [rest EXCEPT ![q] = "notified"][s] = rest[s]
      BY <1>1, <2>1 DEF Waiting, Ears
    <2>3. ear' = rest \/ \E q \in Waiting(Receivers, rest) : ear' = [rest EXCEPT ![q] = "notified"]
      BY <1>3 DEF DropListener, OneNotified
    <2> HIDE DEF rest
    <2> QED
      BY <2>1, <2>2, <2>3
  <1> QED
    BY <1>2, <1>3

LEMMA DropExpected ==
  ASSUME Expected, NEW s \in Senders, DropListener(s, Senders), ear \in Ears,
         UNCHANGED <<closed, in_queue>>,
         \A q \in Senders : pc'[q] = "parked" => pc[q] = "parked",
         \A r \in Receivers : pc'[r] = pc[r]
  PROVE  Expected'
  <1>1. CASE Handed(ear')
    BY <1>1 DEF Handed, Expected
  <1>2. CASE \A q \in Senders : /\ ear'[q] = "waiting" => ear[q] = "waiting"
                                /\ ear[q] = "notified" => ear'[q] = "notified"
    <2>1. CASE closed \/ in_queue >= Cap
      BY <2>1 DEF Expected
    <2>2. CASE \E r \in Receivers : pc[r] = "wakeSend"
      BY <2>2 DEF Expected
    <2>3. CASE \E q \in Senders : ear[q] = "notified"
      BY <1>2, <2>3 DEF Expected
    <2>4. CASE \A q \in Senders : ~(pc[q] = "parked" /\ ear[q] = "waiting")
      BY <1>2, <2>4 DEF Expected
    <2> QED
      BY <2>1, <2>2, <2>3, <2>4 DEF Expected
  <1> QED
    BY <1>1, <1>2, DropHands

LEMMA SenderExpected ==
  ASSUME SingleThread, TypeOK, SeenFresh, Expected, NEW s \in Senders,
         SendStart(s) \/ SendRepoll(s) \/ SendCancel(s) \/ DoSendStart(s) \/ SenderStep(s)
  PROVE  SeenFresh' /\ Expected'
  <1>1. /\ Runs(s) /\ s \in Procs /\ \A q \in Procs \ {s} : pc'[q] = pc[q]
        /\ \A q \in Senders \ {s} : pc[q] # "check" /\ seen'[q] = seen[q]
    <2>1. Runs(s) /\ s \in Procs
      BY DEF SendStart, SendRepoll, SendCancel, DoSendStart, SenderStep, SendLoad, SendReserve,
             SendListen, SendAwait, SendPush, SendWakeStream, SendWakeSend, SendFinish,
             DoSendPush, DoSendWake, At, Procs
    <2>2. (\E to : Goto(s, to)) \/ UNCHANGED pc
      BY DEF SendStart, SendRepoll, SendCancel, DoSendStart, SenderStep, SendLoad, SendReserve,
             SendListen, SendAwait, SendPush, SendWakeStream, SendWakeSend, SendFinish,
             DoSendPush, DoSendWake
    <2>3. (\E v : seen' = [seen EXCEPT ![s] = v]) \/ UNCHANGED seen
      BY DEF SendStart, SendRepoll, SendCancel, DoSendStart, SenderStep, SendLoad, SendReserve,
             SendListen, SendAwait, SendPush, SendWakeStream, SendWakeSend, SendFinish,
             DoSendPush, DoSendWake
    <2>4. \A q \in Senders \ {s} : pc[q] # "check"
      BY <2>1 DEF Runs, Resting, Procs
    <2> QED
      BY <2>1, <2>2, <2>3, <2>4 DEF Goto, TypeOK
  <1>a. \A q \in Senders : AllNotified(Receivers, ear)[q] = ear[q]
    BY ReceiversApart DEF TypeOK
  <1>b. \A x \in OneNotified(Senders, ear) : Handed(x)
    BY OneNotifiedHands DEF TypeOK
  <1>d. /\ \A r \in Receivers : r # s /\ r \in Procs
        /\ Receivers \subseteq Procs /\ Senders \subseteq Procs
        /\ in_queue \in Nat /\ Cap \in Nat /\ Word \in Nat
    BY ProcsAssumption, CapAssumption, WordAssumption DEF TypeOK, Procs
  <1>e. /\ pc \in [Procs -> SenderPlaces \cup ReceiverPlaces \cup CloserPlaces]
        /\ ear \in [Senders \cup Receivers -> {"none", "waiting", "notified"}]
        /\ seen \in [Senders -> 0..(Word - 1)]
    BY DEF TypeOK, Ears
  <1>5. CASE SendCancel(s) \/ SendFinish(s)
    <2>1. /\ UNCHANGED <<closed, in_queue, seen>>
          /\ pc' = [pc EXCEPT ![s] = "idle"] /\ DropListener(s, Senders)
      BY <1>5 DEF SendCancel, SendFinish, Goto
    <2>2. SeenFresh'
      BY <1>1, <1>d, <1>e, <2>1 DEF SeenFresh
    <2>3. /\ \A q \in Senders : pc'[q] = "parked" => pc[q] = "parked"
          /\ \A r \in Receivers : pc'[r] = pc[r]
      BY <1>d, <1>e, <2>1
    <2>4. Expected'
      BY <2>1, <2>3, DropExpected DEF TypeOK
    <2> QED
      BY <2>2, <2>4
  <1> USE <1>d, <1>e DEF SeenFresh, Expected, Handed, At, Goto
  <1>3. CASE SendStart(s)      BY <1>1, <1>3 DEF SendStart
  <1>4. CASE SendRepoll(s)     BY <1>1, <1>4 DEF SendRepoll
  <1>6. CASE DoSendStart(s)    BY <1>1, <1>6 DEF DoSendStart
  <1>7. CASE SendLoad(s)       BY <1>1, <1>7 DEF SendLoad
  <1>8. CASE SendReserve(s)    BY <1>1, <1>8 DEF SendReserve
  <1>9. CASE SendListen(s)     BY <1>1, <1>9 DEF SendListen
  <1>10. CASE SendAwait(s)     BY <1>1, <1>10 DEF SendAwait
  <1>11. CASE SendPush(s)      BY <1>1, <1>11 DEF SendPush
  <1>12. CASE SendWakeStream(s)  BY <1>1, <1>12, <1>a DEF SendWakeStream
  <1>13. CASE SendWakeSend(s)  BY <1>1, <1>13, <1>b DEF SendWakeSend
  <1>14. CASE DoSendPush(s)    BY <1>1, <1>14 DEF DoSendPush
  <1>15. CASE DoSendWake(s)    BY <1>1, <1>15, <1>a DEF DoSendWake
  <1> QED
    BY <1>3, <1>4, <1>5, <1>6, <1>7, <1>8, <1>9, <1>10, <1>11, <1>12, <1>13, <1>14, <1>15
       DEF SenderStep

LEMMA ReceiverExpected ==
  ASSUME SingleThread, TypeOK, SeenFresh, Expected, NEW r \in Receivers,
         RecvStart(r) \/ ReceiverStep(r)
  PROVE  SeenFresh' /\ Expected'
  <1>1. /\ Runs(r) /\ r \in Procs /\ \A q \in Procs \ {r} : pc'[q] = pc[q]
        /\ \A s \in Senders : pc[s] # "check" /\ pc'[s] = pc[s] /\ r # s
    <2>1. Runs(r) /\ r \in Procs /\ \E to : Goto(r, to)
      BY DEF RecvStart, ReceiverStep, RecvAwait, RecvPop, RecvEmpty, RecvClosed, RecvListen,
             RecvDequeue, RecvWakeSend, RecvGot, At, Procs
    <2>2. \A s \in Senders : r # s /\ s \in Procs
      BY ProcsAssumption DEF Procs
    <2>3. \A s \in Senders : pc[s] # "check"
      BY <2>1, <2>2 DEF Runs, Resting
    <2> QED
      BY <2>1, <2>2, <2>3 DEF Goto, TypeOK
  <1>3. SeenFresh'
    BY <1>1 DEF SeenFresh
  <1>b. \A x \in OneNotified(Senders, ear) : Handed(x)
    BY OneNotifiedHands DEF TypeOK
  <1>c. DropListener(r, Receivers) => \A s \in Senders : ear'[s] = ear[s]
    BY ReceiversApart DEF TypeOK
  <1>d. /\ in_queue \in Nat /\ Cap \in Nat /\ Word \in Nat /\ Cap <= Word - 1
        /\ pc \in [Procs -> SenderPlaces \cup ReceiverPlaces \cup CloserPlaces]
        /\ ear \in [Senders \cup Receivers -> {"none", "waiting", "notified"}]
    BY CapAssumption, WordAssumption DEF TypeOK, Ears
  <1> USE <1>d DEF Expected, Handed, At, Goto
  <1>4. CASE RecvStart(r)     BY <1>1, <1>3, <1>4 DEF RecvStart
  <1>5. CASE RecvAwait(r)
    <2>1. (\A s \in Senders : ear'[s] = ear[s]) /\ UNCHANGED <<closed, in_queue>>
      BY <1>1, <1>5 DEF RecvAwait
    <2>2. pc'[r] # "wakeSend" /\ pc[r] # "wakeSend"
      BY <1>1, <1>5 DEF RecvAwait
    <2> QED
      BY <1>1, <1>3, <2>1, <2>2 DEF Procs
  <1>6. CASE RecvPop(r)       BY <1>1, <1>3, <1>6 DEF RecvPop
  <1>7. CASE RecvEmpty(r)     BY <1>1, <1>3, <1>7 DEF RecvEmpty
  <1>8. CASE RecvClosed(r)    BY <1>1, <1>3, <1>8, <1>c DEF RecvClosed
  <1>9. CASE RecvListen(r)    BY <1>1, <1>3, <1>9 DEF RecvListen
  <1>10. CASE RecvDequeue(r)  BY <1>1, <1>3, <1>10 DEF RecvDequeue
  <1>11. CASE RecvWakeSend(r) BY <1>1, <1>3, <1>11, <1>b DEF RecvWakeSend
  <1>12. CASE RecvGot(r)      BY <1>1, <1>3, <1>12, <1>c DEF RecvGot
  <1> QED
    BY <1>4, <1>5, <1>6, <1>7, <1>8, <1>9, <1>10, <1>11, <1>12 DEF ReceiverStep

LEMMA CloserExpected ==
  ASSUME SingleThread, TypeOK, SeenFresh, Expected, NEW c \in Closers, Close(c) \/ CloserStep(c)
  PROVE  SeenFresh' /\ Expected'
  <1>1. /\ Runs(c) /\ c \in Procs /\ \A q \in Procs \ {c} : pc'[q] = pc[q]
        /\ \A p \in Senders \cup Receivers : pc[p] # "check" /\ pc'[p] = pc[p]
        /\ UNCHANGED <<in_queue, seen>>
    <2>1. Runs(c) /\ c \in Procs /\ (\E to : Goto(c, to)) /\ UNCHANGED <<in_queue, seen>>
      BY DEF Close, CloserStep, CloseWakeSend, CloseWakeStream, At, Procs
    <2>2. \A p \in Senders \cup Receivers : c # p /\ p \in Procs
      BY ProcsAssumption DEF Procs
    <2>3. \A p \in Senders \cup Receivers : pc[p] # "check"
      BY <2>1, <2>2 DEF Runs, Resting
    <2> QED
      BY <2>1, <2>2, <2>3 DEF Goto, TypeOK
  <1>2. SeenFresh'
    BY <1>1 DEF SeenFresh
  <1>3. Expected'
    <2>1. CASE Close(c)
      BY <2>1 DEF Close, Expected
    <2>2. CASE CloseWakeSend(c)
      <3>1. \A s \in Senders : ear'[s] # "waiting"
        BY <2>2, AllNotifiedTypes DEF CloseWakeSend, TypeOK
      <3> QED
        BY <3>1 DEF Expected
    <2>3. CASE CloseWakeStream(c)
      <3>1. \A s \in Senders : ear'[s] = ear[s]
        BY <2>3, ReceiversApart DEF CloseWakeStream, TypeOK
      <3> QED
        BY <1>1, <2>3, <3>1 DEF CloseWakeStream, Expected
    <2> QED
      BY <2>1, <2>2, <2>3 DEF CloserStep
  <1> QED
    BY <1>2, <1>3

(* On one thread and without do_send, a sender that waits beside a free     *)
(* slot is not forgotten: another one was notified, and will pass it on.    *)
THEOREM NoStrandedSender ==
  ASSUME SingleThread, ~DoSends
  PROVE  Spec => []SenderNotStranded
  <1>1. Init => SeenFresh /\ Expected /\ ~doSent
    BY DEF Init, SeenFresh, Expected, Procs
  <1>2. TypeOK /\ SeenFresh /\ Expected /\ [Next]_vars => SeenFresh' /\ Expected'
    <2>1. SeenFresh /\ Expected /\ UNCHANGED vars => SeenFresh' /\ Expected'
      BY DEF SeenFresh, Expected, vars
    <2> QED
      BY <2>1, SenderExpected, ReceiverExpected, CloserExpected DEF Next
  <1>3. ~doSent /\ [Next]_vars => ~doSent'
    BY DEF Next, vars, SendStart, SendRepoll, SendCancel, DoSendStart, SenderStep, SendLoad,
           SendReserve, SendListen, SendAwait, SendPush, SendWakeStream, SendWakeSend, SendFinish,
           DoSendPush, DoSendWake, RecvStart, ReceiverStep, RecvAwait, RecvPop, RecvEmpty,
           RecvClosed, RecvListen, RecvDequeue, RecvWakeSend, RecvGot, Close, CloserStep,
           CloseWakeSend, CloseWakeStream
  <1>4. TypeOK /\ SlotsInv /\ Expected /\ ~doSent => SenderNotStranded
    <2> SUFFICES ASSUME TypeOK, SlotsInv, Expected, ~doSent, \A p \in Procs : Resting(p),
                        queued < Cap, ~closed,
                        \E s \in Senders : pc[s] = "parked" /\ ear[s] = "waiting"
                 PROVE  \E s \in Senders : ear[s] = "notified"
      BY DEF SenderNotStranded
    <2>1. {p \in Senders : pc[p] = "push"} = {} /\ {p \in Receivers : pc[p] = "dequeue"} = {}
      BY DEF Resting, Procs
    <2>2. Busy(Senders, "push") = 0 /\ Busy(Receivers, "dequeue") = 0
      BY <2>1, FS_EmptySet DEF Busy
    <2>3. in_queue = queued
      BY <2>2 DEF SlotsInv, Slots, TypeOK
    <2>4. \A r \in Receivers : pc[r] # "wakeSend"
      BY DEF Resting, Procs
    <2>5. ~(in_queue >= Cap)
      BY <2>3, CapAssumption DEF TypeOK
    <2> QED
      BY <2>4, <2>5 DEF Expected
  <1> QED
    BY <1>1, <1>2, <1>3, <1>4, InitTypeOK, InitSlots, NextTypeOK, NextSlots, PTL DEF Spec
=============================================================================

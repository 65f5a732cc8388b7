------------------------ MODULE ChannelHandlesProofs --------------------------
(***************************************************************************)
(* Theorems about ChannelHandles, for any number of places for Senders and *)
(* Receivers: the counters count, and while an address and an actor live   *)
(* the channel closes only when it is told to.                             *)
(***************************************************************************)
EXTENDS ChannelHandles, FiniteSetTheorems, TLAPS

(* How the number of live handles follows the change of one of them. *)
LEMMA SenderChanges ==
  ASSUME TypeOK, NEW h \in Senders, NEW v \in {"absent", "upgrading", "asking", "live", "closing"},
         sender' = [sender EXCEPT ![h] = v]
  PROVE  /\ Cardinality(Live(sender)) \in Nat
         /\ Live(sender) # {} <=> Cardinality(Live(sender)) > 0
         /\ v = "live" /\ sender[h] # "live" =>
                Cardinality(Live(sender')) = Cardinality(Live(sender)) + 1
         /\ v # "live" /\ sender[h] = "live" =>
                Cardinality(Live(sender')) = Cardinality(Live(sender)) - 1
         /\ (v = "live" <=> sender[h] = "live") =>
                Cardinality(Live(sender')) = Cardinality(Live(sender))
  <1>1. Live(sender) \subseteq Senders /\ (h \in Live(sender) <=> sender[h] = "live")
    BY DEF Live, TypeOK
  <1>2. Live(sender') = IF v = "live" THEN Live(sender) \cup {h} ELSE Live(sender) \ {h}
    BY DEF Live, TypeOK
  <1>3. IsFiniteSet(Live(sender)) /\ Cardinality(Live(sender)) \in Nat
    BY <1>1, HandlesAssumption, FS_Subset, FS_CardinalityType
  <1>4. Live(sender) # {} <=> Cardinality(Live(sender)) > 0
    BY <1>3, FS_EmptySet
  <1> DEFINE A == Live(sender)
  <1>5. /\ Cardinality(A \cup {h}) = IF h \in A THEN Cardinality(A) ELSE Cardinality(A) + 1
        /\ Cardinality(A \ {h}) = IF h \in A THEN Cardinality(A) - 1 ELSE Cardinality(A)
    <2> HIDE DEF A
    <2> QED
      BY <1>3, FS_AddElement, FS_RemoveElement DEF A
  <1> QED
    BY <1>1, <1>2, <1>3, <1>4, <1>5

LEMMA ReceiverChanges ==
  ASSUME TypeOK, NEW q \in Receivers, NEW v \in {"absent", "live", "closing"},
         receiver' = [receiver EXCEPT ![q] = v]
  PROVE  /\ Cardinality(Live(receiver)) \in Nat
         /\ Live(receiver) # {} <=> Cardinality(Live(receiver)) > 0
         /\ v = "live" /\ receiver[q] # "live" =>
                Cardinality(Live(receiver')) = Cardinality(Live(receiver)) + 1
         /\ v # "live" /\ receiver[q] = "live" =>
                Cardinality(Live(receiver')) = Cardinality(Live(receiver)) - 1
         /\ (v = "live" <=> receiver[q] = "live") =>
                Cardinality(Live(receiver')) = Cardinality(Live(receiver))
  <1>1. Live(receiver) \subseteq Receivers /\ (q \in Live(receiver) <=> receiver[q] = "live")
    BY DEF Live, TypeOK
  <1>2. Live(receiver') = IF v = "live" THEN Live(receiver) \cup {q} ELSE Live(receiver) \ {q}
    BY DEF Live, TypeOK
  <1>3. IsFiniteSet(Live(receiver)) /\ Cardinality(Live(receiver)) \in Nat
    BY <1>1, HandlesAssumption, FS_Subset, FS_CardinalityType
  <1>4. Live(receiver) # {} <=> Cardinality(Live(receiver)) > 0
    BY <1>3, FS_EmptySet
  <1> DEFINE A == Live(receiver)
  <1>5. /\ Cardinality(A \cup {q}) = IF q \in A THEN Cardinality(A) ELSE Cardinality(A) + 1
        /\ Cardinality(A \ {q}) = IF q \in A THEN Cardinality(A) - 1 ELSE Cardinality(A)
    <2> HIDE DEF A
    <2> QED
      BY <1>3, FS_AddElement, FS_RemoveElement DEF A
  <1> QED
    BY <1>1, <1>2, <1>3, <1>4, <1>5

(* The inductive invariant: besides the counters, that a Receiver closes    *)
(* only when none is left, and that as long as nobody stopped or revived    *)
(* the channel it closes only when no Sender or no Receiver is left.        *)
Reason == stopped \/ revived \/ sender_count = 0 \/ receiver_count = 0

Closing == closed \/ \E h \in Senders : sender[h] = "closing"

IInv ==
    /\ TypeOK
    /\ CountsTrue
    /\ (\E q \in Receivers : receiver[q] = "closing") => receiver_count = 0
    /\ Closing => Reason

-----------------------------------------------------------------------------
LEMMA InitIInv == Init => IInv
  <1> SUFFICES ASSUME Init PROVE IInv
    OBVIOUS
  <1>1. TypeOK
    BY DEF Init, TypeOK
  <1>2. PICK h \in Senders : sender = [g \in Senders |-> IF g = h THEN "live" ELSE "absent"]
    BY DEF Init
  <1>3. PICK q \in Receivers : receiver = [p \in Receivers |-> IF p = q THEN "live" ELSE "absent"]
    BY DEF Init
  <1>4. Live(sender) = {h} /\ Live(receiver) = {q}
    BY <1>2, <1>3 DEF Live
  <1>5. CountsTrue
    BY <1>4, FS_Singleton DEF CountsTrue, Init
  <1> QED
    BY <1>1, <1>2, <1>3, <1>5 DEF IInv, Closing, Init

(* A step of a Sender keeps the count of Senders, closes only as the last,  *)
(* and leaves the Receivers alone.                                          *)
LEMMA SenderIInv ==
  ASSUME IInv, NEW h \in Senders, SenderNext(h)
  PROVE  IInv'
  <1> USE HandlesAssumption
  <1>t. TypeOK
    BY DEF IInv
  <1>l. ASSUME NEW v \in {"absent", "upgrading", "asking", "live", "closing"}, Become(h, v)
        PROVE  /\ Cardinality(Live(sender)) \in Nat
               /\ Live(sender) # {} <=> Cardinality(Live(sender)) > 0
               /\ v = "live" /\ sender[h] # "live" =>
                      Cardinality(Live(sender')) = Cardinality(Live(sender)) + 1
               /\ v # "live" /\ sender[h] = "live" =>
                      Cardinality(Live(sender')) = Cardinality(Live(sender)) - 1
               /\ (v = "live" <=> sender[h] = "live") =>
                      Cardinality(Live(sender')) = Cardinality(Live(sender))
    BY <1>t, <1>l, SenderChanges DEF Become
  <1>r. receiver' = receiver /\ receiver_count' = receiver_count /\ stopped' = stopped
    BY DEF SenderNext, Clone, Drop, DropClose, UpgradeLoad, UpgradeNone, UpgradeSwap, UpgradeRetry,
           AsSender, AsSenderCount
  <1>1. CASE Clone(h)
    BY <1>1, <1>t, <1>l, <1>r DEF Clone, IInv, TypeOK, CountsTrue, Closing, Reason, Become
  <1>2. CASE Drop(h)
    <2>1. PICK v \in {"absent", "closing"} :
             Become(h, v) /\ (v = "closing" <=> sender_count = 1)
      BY <1>2 DEF Drop
    <2>2. sender_count' = Cardinality(Live(sender')) /\ sender_count' \in Nat
      <3>1. sender[h] = "live" /\ sender_count' = sender_count - 1
        BY <1>2 DEF Drop
      <3>2. sender_count = Cardinality(Live(sender)) /\ Live(sender) # {}
        BY <1>t, <3>1 DEF IInv, CountsTrue, TypeOK, Live
      <3>3. v # "live"
        BY <2>1
      <3>4. /\ Cardinality(Live(sender')) = Cardinality(Live(sender)) - 1
            /\ Cardinality(Live(sender)) \in Nat /\ Cardinality(Live(sender)) > 0
        BY <1>l, <2>1, <3>1, <3>2, <3>3
      <3> QED
        BY <3>1, <3>2, <3>4
    <2>3. Closing' => Reason'
      BY <1>2, <1>t, <1>r, <2>1, <2>2 DEF Drop, IInv, TypeOK, Closing, Reason, Become
    <2> QED
      BY <1>2, <1>t, <1>r, <2>1, <2>2, <2>3 DEF Drop, IInv, TypeOK, CountsTrue, Become
  <1>3. CASE DropClose(h)
    BY <1>3, <1>t, <1>l, <1>r DEF DropClose, IInv, TypeOK, CountsTrue, Closing, Reason, Become
  <1>4. CASE UpgradeLoad(h)
    BY <1>4, <1>t, <1>l, <1>r DEF UpgradeLoad, IInv, TypeOK, CountsTrue, Closing, Reason, Become
  <1>5. CASE UpgradeNone(h)
    BY <1>5, <1>t, <1>l, <1>r DEF UpgradeNone, IInv, TypeOK, CountsTrue, Closing, Reason, Become
  <1>6. CASE UpgradeSwap(h)
    BY <1>6, <1>t, <1>l, <1>r DEF UpgradeSwap, IInv, TypeOK, CountsTrue, Closing, Reason, Become
  <1>7. CASE UpgradeRetry(h)
    BY <1>7, <1>t, <1>r DEF UpgradeRetry, IInv, TypeOK, CountsTrue, Closing, Reason
  <1>8. CASE \E q \in Receivers : AsSender(h, q)
    BY <1>8, <1>t, <1>l, <1>r DEF AsSender, IInv, TypeOK, CountsTrue, Closing, Reason, Become
  <1>9. CASE AsSenderCount(h)
    <2>1. Become(h, "live") /\ sender[h] = "asking" /\ sender_count' = sender_count + 1
      BY <1>9 DEF AsSenderCount
    <2>2. TypeOK' /\ CountsTrue'
      BY <1>9, <1>t, <1>l, <1>r, <2>1 DEF AsSenderCount, IInv, TypeOK, CountsTrue, Become
    <2>3. Closing' => Closing
      BY <1>9, <1>t DEF AsSenderCount, TypeOK, Closing, Become
    <2>4. (revived \/ sender_count = 0) => revived'
      BY <1>9 DEF AsSenderCount
    <2>5. Reason => Reason'
      BY <1>r, <2>4 DEF Reason
    <2> QED
      BY <1>r, <2>2, <2>3, <2>5 DEF IInv
  <1> QED
    BY <1>1, <1>2, <1>3, <1>4, <1>5, <1>6, <1>7, <1>8, <1>9 DEF SenderNext

LEMMA ReceiverIInv ==
  ASSUME IInv, NEW q \in Receivers, ReceiverNext(q)
  PROVE  IInv'
  <1> USE HandlesAssumption
  <1>t. TypeOK
    BY DEF IInv
  <1>l. ASSUME NEW v \in {"absent", "live", "closing"}, receiver' = [receiver EXCEPT ![q] = v]
        PROVE  /\ Cardinality(Live(receiver)) \in Nat
               /\ Live(receiver) # {} <=> Cardinality(Live(receiver)) > 0
               /\ v = "live" /\ receiver[q] # "live" =>
                      Cardinality(Live(receiver')) = Cardinality(Live(receiver)) + 1
               /\ v # "live" /\ receiver[q] = "live" =>
                      Cardinality(Live(receiver')) = Cardinality(Live(receiver)) - 1
               /\ (v = "live" <=> receiver[q] = "live") =>
                      Cardinality(Live(receiver')) = Cardinality(Live(receiver))
    BY <1>t, <1>l, ReceiverChanges DEF Become
  <1>s. UNCHANGED <<sender, sender_count, stopped, revived, seen, asked>>
    BY DEF ReceiverNext, CloneReceiver, DropReceiver, DropReceiverClose
  <1>1. CASE CloneReceiver(q)
    BY <1>1, <1>t, <1>l, <1>s DEF CloneReceiver, IInv, TypeOK, CountsTrue, Closing, Reason
  <1>2. CASE DropReceiver(q)
    <2>1. PICK v \in {"absent", "closing"} : /\ receiver' = [receiver EXCEPT ![q] = v]
                                             /\ v = "closing" <=> receiver_count = 1
      BY <1>2 DEF DropReceiver
    <2>2. receiver_count' = Cardinality(Live(receiver')) /\ receiver_count' \in Nat
      <3>1. receiver[q] = "live" /\ receiver_count' = receiver_count - 1
        BY <1>2 DEF DropReceiver
      <3>2. receiver_count = Cardinality(Live(receiver)) /\ Live(receiver) # {}
        BY <1>t, <3>1 DEF IInv, CountsTrue, TypeOK, Live
      <3>3. v # "live"
        BY <2>1
      <3>4. /\ Cardinality(Live(receiver')) = Cardinality(Live(receiver)) - 1
            /\ Cardinality(Live(receiver)) \in Nat /\ Cardinality(Live(receiver)) > 0
        BY <1>l, <2>1, <3>1, <3>2, <3>3
      <3> QED
        BY <3>1, <3>2, <3>4
    <2>3. (\E p \in Receivers : receiver'[p] = "closing") => receiver_count' = 0
      <3>1. receiver_count # 0
        BY <1>2, <1>l, <2>1, <2>2 DEF DropReceiver, IInv, CountsTrue
      <3> QED
        BY <1>2, <1>t, <2>1, <3>1 DEF DropReceiver, IInv, TypeOK
    <2> QED
      BY <1>2, <1>t, <1>s, <2>1, <2>2, <2>3
      DEF DropReceiver, IInv, TypeOK, CountsTrue, Closing, Reason
  <1>3. CASE DropReceiverClose(q)
    BY <1>3, <1>t, <1>l, <1>s DEF DropReceiverClose, IInv, TypeOK, CountsTrue, Closing, Reason
  <1> QED
    BY <1>1, <1>2, <1>3 DEF ReceiverNext

LEMMA NextIInv == IInv /\ [Next]_vars => IInv'
  <1> SUFFICES ASSUME IInv, [Next]_vars PROVE IInv'
    OBVIOUS
  <1>1. CASE \E h \in Senders : SenderNext(h)
    BY <1>1, SenderIInv
  <1>2. CASE \E q \in Receivers : ReceiverNext(q)
    BY <1>2, ReceiverIInv
  <1>3. CASE Close
    BY <1>3 DEF Close, IInv, TypeOK, CountsTrue, Closing, Reason, Live
  <1>4. CASE UNCHANGED vars
    BY <1>4 DEF vars, IInv, TypeOK, CountsTrue, Closing, Reason, Live
  <1> QED
    BY <1>1, <1>2, <1>3, <1>4 DEF Next

-----------------------------------------------------------------------------
(* The handles of every channel are what the code's counters assume. *)
THEOREM Typed == Spec => []TypeOK
  <1>1. IInv => TypeOK
    BY DEF IInv
  <1> QED
    BY <1>1, InitIInv, NextIInv, PTL DEF Spec

(* The counters count the handles there are. *)
THEOREM Counted == Spec => []CountsTrue
  <1>1. IInv => CountsTrue
    BY DEF IInv
  <1> QED
    BY <1>1, InitIInv, NextIInv, PTL DEF Spec

(* While an address and an actor live, the channel closes only when someone *)
(* closes it, or as_sender has revived it.                                  *)
THEOREM Open == Spec => []LiveIsOpen
  <1>1. IInv => LiveIsOpen
    <2> SUFFICES ASSUME IInv, Live(sender) # {}, Live(receiver) # {}, ~stopped, ~revived
                 PROVE  /\ ~closed
                        /\ \A h \in Senders : sender[h] # "closing"
                        /\ \A q \in Receivers : receiver[q] # "closing"
      BY DEF LiveIsOpen
    <2>1. Live(sender) \subseteq Senders /\ Live(receiver) \subseteq Receivers
      BY DEF Live, IInv, TypeOK
    <2>2. sender_count # 0 /\ receiver_count # 0
      BY <2>1, HandlesAssumption, FS_Subset, FS_EmptySet DEF IInv, CountsTrue
    <2> QED
      BY <2>2 DEF IInv, Closing, Reason
  <1> QED
    BY <1>1, InitIInv, NextIInv, PTL DEF Spec
=============================================================================
